---- MODULE Spec2Model ----
(***************************************************************************)
(* Model of the database-backed job queue of src/lib/queue.ts (JobQueue).  *)
(*                                                                         *)
(* The job table is shared by every JobQueue instance.  Each prisma call   *)
(* is one atomic step on the table; the awaits between two prisma calls    *)
(* are the points where other flows interleave.  A flow is one run of the  *)
(* setInterval callback (one tick) of one JobQueue instance; since         *)
(* setInterval does not wait for the async callback, an instance can have  *)
(* several ticks running at once.  The columns startedAt and completedAt   *)
(* are written by these operations and read by none of them; the model     *)
(* leaves them out.                                                        *)
(***************************************************************************)
EXTENDS Integers, Sequences, FiniteSets, TLC

\* ---- bounds of the model ----
MaxJobs == 2            \* rows the job table can hold
MaxTicks == 2           \* ticks of one instance that may overlap
MaxClock == 6000        \* the clock stops advancing here (ms)
MaxCalls == 3           \* makeRequest calls made in one run
MaxApiClock == 7000     \* the clock of the API client stops here (ms)
maxRequests == 1        \* quota the RateLimiter is constructed with
MaxShortfall == 1       \* items an upstream page may fall short of the limit
MaxPosts == 2           \* posts of the page the pipeline fetches
MaxComments == 1        \* comments of the one post that has comments
MaxFetchJobs == 4       \* rows of the Job table the fetch workers may fill
MaxPages == 2            \* connected pages
MaxDays == 2            \* days the retention sweep of the queue looks at
MaxListRequests == 120  \* requests one listing call is followed for

\* ---- program constants ----
baseDelay == 1000
maxDelay == 300000
DefaultMaxAttempts == 3
maxRetries == 3
retryBaseDelay == 1000
retryMaxDelay == 30000
postsLimit == 25
postsCap == 1000
commentsLimit == 100
commentsCap == 10000
DefaultOlderThanDays == 7

\* granularity of the clock (ms): the shortest retry delay
TimeStep == 2 * baseDelay

JobIds == 1..MaxJobs
\* rows the job table needs when the handlers enqueue their follow-up jobs:
\* one FETCH_POSTS job, and every job can be run by MaxTicks ticks
MaxPipelineJobs == 1 + MaxTicks * (1 + MaxTicks * MaxComments)
RowIds == JobIds \cup (1..MaxPipelineJobs)
Instances == {"queueA"}
Flows == Instances \X (1..MaxTicks)

HandledTypes == {"FETCH_POSTS", "FETCH_COMMENTS", "ANALYZE_SENTIMENT",
                 "REFRESH_TOKENS", "CLEANUP_DATA"}
\* job types enqueue is called with in the model: one the switch handles and
\* one value of the JobType enum that no case of the switch matches
EnqueuedTypes == {"FETCH_POSTS", "OTHER_TYPE"}
\* every caller of enqueue leaves maxAttempts and scheduledAt to their defaults
MaxAttemptsArgs == {DefaultMaxAttempts}

\* a nullable column or local: <<>> is null, <<v>> is the value v
Null == <<>>
Some(v) == <<v>>
Val(o) == o[1]
ScheduledAtArgs == {Null}

VARIABLES
    clock,              \* Date.now() / new Date()
    jobs,               \* the Job table: id -> row (status "ABSENT": no row)
    isProcessing,       \* JobQueue.isProcessing, per instance
    processingInterval, \* JobQueue.processingInterval is set, per instance
    timers,             \* the interval timers that are live, per instance
    pc,                 \* per flow: where the tick of processNextJob stands
    tickJob,            \* per flow: the local `job` of processNextJob
    tickError,          \* per flow: the error caught by processNextJob
    failLocal,          \* per flow: the locals of failJob
    requests,           \* RateLimiter.requests, per MetaGraphAPI object
    call,               \* per makeRequest call: its position and locals
    sent,               \* the HTTP requests fetch has sent so far
    upstream,           \* the result set the Graph API serves to a listing
    listing,            \* the paginated helper that runs: its locals
    payload,            \* the payload column of the Job table: id -> value
    posts,              \* the Post table: (externalId, platform) -> rows
    comments,           \* the Comment table: (externalId, platform) -> rows
    analysisRows,       \* the Analysis table: comment id -> number of rows
    crypto,             \* one use of TokenEncryption: runtime, inputs, result
    sweep,              \* the cleanupOldJobs call that runs: its locals
    fetchRun,           \* per flow: the locals of the fetch worker that runs
    pages,              \* the Page table: id -> row
    graphTokens,        \* what the Graph API says of each page's token
    refresh,            \* the run of refreshExpiredTokens: its locals
    retention,          \* the DataRetention row of the user
    stamps,             \* fetchedAt / analyzedAt of the rows of the tables
    cleanup             \* the run of cleanupUserData: its locals

queueVars == <<clock, jobs, isProcessing, processingInterval, timers, pc, tickJob,
               tickError, failLocal>>
apiVars == <<requests, call, sent>>
listVars == <<upstream, listing>>
dataVars == <<payload, posts, comments, analysisRows>>
\* the state of the parts modelled further down, each with its own
\* specification
refreshVars == <<pages, graphTokens, refresh>>
cleanupVars == <<retention, stamps, cleanup>>
extraVars == <<crypto, sweep, fetchRun, refreshVars, cleanupVars>>
\* what the operations of JobQueue leave alone
nonQueueVars == <<apiVars, listVars, dataVars, extraVars>>
\* what RateLimiter and makeRequest leave alone (they read the clock)
nonApiVars == <<jobs, isProcessing, processingInterval, timers, pc, tickJob,
                tickError, failLocal, listVars, dataVars, extraVars>>
\* what the paginated helpers leave alone
nonListVars == <<queueVars, apiVars, dataVars, extraVars>>
\* the state of the parts modelled above the handlers
coreVars == <<queueVars, apiVars, listVars, dataVars>>
\* what TokenEncryption leaves alone
nonCryptoVars == <<coreVars, sweep, fetchRun, refreshVars, cleanupVars>>
\* what cleanupOldJobs leaves alone besides the queue
nonSweepVars == <<apiVars, listVars, dataVars, crypto, fetchRun,
                  refreshVars, cleanupVars>>

vars == <<queueVars, apiVars, listVars, dataVars, extraVars>>

AbsentRow == [type |-> "NONE", status |-> "ABSENT", attempts |-> 0,
              maxAttempts |-> 0, scheduledAt |-> 0, lastError |-> "null",
              completedAt |-> Null]
NoJob == [id |-> 0, attempts |-> 0]
NoError == [message |-> "null", hasJobId |-> FALSE]
NoFail == [attempts |-> 0, maxAttempts |-> 0, now |-> 0]

Exists(j) == jobs[j].status # "ABSENT"
\* the row was deleted: its id is not used again, and a prisma update of it
\* throws; a tick that read the row before still has its copy
Gone(j) == jobs[j].status = "DELETED"

\* two MetaGraphAPI objects made with the same access token: every handler
\* run and every paginated helper does new MetaGraphAPI(token), and each
\* object gets its own RateLimiter
Apis == {"api1", "api2"}
accessToken == [a \in Apis |-> "pageToken"]
Calls == 1..MaxCalls
\* the calls the upstream may answer with errors; the others get 2xx
FailingCalls == {1}
\* what fetch can answer: 2xx, 429, a rejected promise, another 4xx status
Responses == {"ok", "429", "network", "4xx"}
NoCall == [pc |-> "idle", api |-> "none", now |-> 0, admittedAt |-> 0,
           wakeAt |-> 0, attempt |-> 0, response |-> "none"]

\* the four paginated helpers of MetaGraphAPI
Helpers == {"getPagePosts", "getPostComments",
            "getInstagramPosts", "getInstagramComments"}
NoUpstream == [total |-> 0, pageSize |-> 0]
NoListing == [helper |-> "none", pc |-> "idle", items |-> <<>>,
              nextUrl |-> Null, requests |-> 0]

\* what the Graph API holds for the page the pipeline fetches: post 1 has
\* MaxComments comments, the other posts have none
PostIds == 1..MaxPosts
CommentIds == 1..MaxComments
commentCount == [p \in PostIds |-> IF p = 1 THEN MaxComments ELSE 0]
commentsOf == [p \in PostIds |-> IF p = 1 THEN CommentIds ELSE {}]

PageIds == 1..MaxPages
NoPage == [present |-> FALSE, isActive |-> FALSE, pageAccessToken |-> <<>>]
NoToken == [valid |-> FALSE, expiresSoon |-> FALSE]
NoRefresh == [pc |-> "idle", legacyApi |-> FALSE, todo |-> <<>>,
              before |-> [p \in PageIds |-> NoPage]]
NoRetention == [present |-> FALSE, autoDelete |-> FALSE, retentionDays |-> 0]
NoStamps == [post |-> [p \in PostIds |-> 0],
             comment |-> [c \in CommentIds |-> 0],
             analysis |-> [c \in CommentIds |-> 0]]
NoCleanup == [pc |-> "idle", userId |-> Null, onDelete |-> "none",
              todo |-> <<>>, cutoffDate |-> 0, deletedPosts |-> {},
              deletedComments |-> {}, swept |-> FALSE]
NoRun == [isValid |-> Null, items |-> <<>>, wrote |-> FALSE]
NoSweep == [pc |-> "idle", now |-> 0, days |-> 0, cutoffDate |-> 0,
            count |-> 0]

\* the result of a call that threw
Failure == [ok |-> FALSE, value |-> <<>>]
Success(v) == [ok |-> TRUE, value |-> v]
NoCrypto == [pc |-> "idle", legacyApi |-> FALSE, plaintext |-> <<>>,
             envelope |-> Failure, altered |-> "none", result |-> Failure]

Init ==
    /\ clock = 0
    /\ jobs = [j \in RowIds |-> AbsentRow]
    /\ isProcessing = [i \in Instances |-> FALSE]
    /\ processingInterval = [i \in Instances |-> FALSE]
    /\ timers = [i \in Instances |-> 0]
    /\ pc = [f \in Flows |-> "idle"]
    /\ tickJob = [f \in Flows |-> NoJob]
    /\ tickError = [f \in Flows |-> NoError]
    /\ failLocal = [f \in Flows |-> NoFail]
    /\ requests = [a \in Apis |-> <<>>]
    /\ call = [c \in Calls |-> NoCall]
    /\ sent = {}
    /\ upstream = NoUpstream
    /\ listing = NoListing
    /\ payload = [j \in RowIds |-> 0]
    /\ posts = [p \in PostIds |-> 0]
    /\ comments = [c \in CommentIds |-> 0]
    /\ analysisRows = [c \in CommentIds |-> 0]
    /\ crypto = NoCrypto
    /\ sweep = NoSweep
    /\ fetchRun = [f \in Flows |-> NoRun]
    /\ pages = [p \in PageIds |-> NoPage]
    /\ graphTokens = [p \in PageIds |-> NoToken]
    /\ refresh = NoRefresh
    /\ retention = NoRetention
    /\ stamps = NoStamps
    /\ cleanup = NoCleanup

\* ---- pure functions ----
RECURSIVE Pow2(_)
Pow2(n) == IF n = 0 THEN 1 ELSE 2 * Pow2(n - 1)

Min(a, b) == IF a < b THEN a ELSE b

\* an off-by-one exponent: the delay of the previous attempt
calculateBackoffDelayPrevAttempt(attempts) ==
    Min(baseDelay * Pow2(IF attempts > 0 THEN attempts - 1 ELSE 0), maxDelay)

calculateBackoffDelay(attempts) == Min(baseDelay * Pow2(attempts), maxDelay)

\* the where clause of getNextJob's findFirst
Eligible(j) ==
    /\ jobs[j].status = "QUEUED"
    /\ jobs[j].scheduledAt <= clock
    /\ jobs[j].attempts < jobs[j].maxAttempts

\* the rows findFirst may return: where + orderBy scheduledAt asc
\* (the order among rows of equal scheduledAt is the database's choice)
FindFirst ==
    {j \in RowIds : Eligible(j) /\
        \A k \in RowIds : Eligible(k) => jobs[j].scheduledAt <= jobs[k].scheduledAt}

ErrorMessage(type) ==
    CASE type = "FETCH_POSTS" -> "Failed to fetch posts"
      [] type = "FETCH_COMMENTS" -> "Failed to fetch comments"
      [] type = "ANALYZE_SENTIMENT" -> "Failed to analyze sentiment"
      [] type = "REFRESH_TOKENS" -> "Failed to refresh tokens"
      [] type = "CLEANUP_DATA" -> "Failed to cleanup data"
      [] OTHER -> "Unknown job type"

\* ---- the environment ----
\* time passes
Tick ==
    /\ clock < MaxClock
    /\ clock' = clock + TimeStep
    /\ UNCHANGED <<jobs, isProcessing, processingInterval, timers, pc, tickJob,
                   tickError, failLocal>>
    /\ UNCHANGED nonQueueVars

\* ---- JobQueue operations ----
\* enqueue(type, payload, maxAttempts = 3, scheduledAt?): one prisma create
enqueue(type, maxAtt, schedArg) ==
    /\ \E j \in JobIds :
        /\ ~Exists(j)
        /\ \A k \in JobIds : k < j => Exists(k)
        /\ jobs' = [jobs EXCEPT ![j] =
              [type |-> type, status |-> "QUEUED", attempts |-> 0,
               maxAttempts |-> maxAtt,
               scheduledAt |-> IF schedArg = Null THEN clock ELSE Val(schedArg),
               lastError |-> "null", completedAt |-> Null]]
    /\ UNCHANGED <<clock, isProcessing, processingInterval, timers, pc, tickJob,
                   tickError, failLocal>>
    /\ UNCHANGED nonQueueVars

\* enqueue is called by the fetch route and by the handlers while they run:
\* a row may appear between any two steps
Enqueue ==
    \E type \in EnqueuedTypes, maxAtt \in MaxAttemptsArgs,
       schedArg \in ScheduledAtArgs :
        enqueue(type, maxAtt, schedArg)

\* a startProcessing that never returns early
startProcessingAlwaysStarts(i) == FALSE

\* if (this.isProcessing) return
startProcessingReturns(i) == isProcessing[i]

\* startProcessing returns at once when isProcessing is set; otherwise
\* setInterval makes a timer and the handle is kept
startProcessing(i) ==
    /\ ~startProcessingReturns(i)
    /\ isProcessing' = [isProcessing EXCEPT ![i] = TRUE]
    /\ processingInterval' = [processingInterval EXCEPT ![i] = TRUE]
    /\ timers' = [timers EXCEPT ![i] = @ + 1]
    /\ UNCHANGED <<clock, jobs, pc, tickJob, tickError, failLocal>>
    /\ UNCHANGED nonQueueVars

\* stopProcessing on a stopped instance changes nothing
stopProcessing(i) ==
    /\ isProcessing[i] \/ processingInterval[i]
    /\ timers' = [timers EXCEPT ![i] = IF processingInterval[i] THEN @ - 1
                                      ELSE @]
    /\ processingInterval' = [processingInterval EXCEPT ![i] = FALSE]
    /\ isProcessing' = [isProcessing EXCEPT ![i] = FALSE]
    /\ UNCHANGED <<clock, jobs, pc, tickJob, tickError, failLocal>>
    /\ UNCHANGED nonQueueVars

\* the interval timer of instance f[1] fires: the callback calls
\* processNextJob, which calls getNextJob; first prisma call: findFirst.
\* Without a row getNextJob returns null and the tick ends.
getNextJobFind(f) ==
    /\ timers[f[1]] > 0
    /\ pc[f] = "idle"
    /\ IF FindFirst = {}
       THEN UNCHANGED <<pc, tickJob>>
       ELSE \E j \in FindFirst :
            /\ tickJob' = [tickJob EXCEPT ![f] =
                              [id |-> j, attempts |-> jobs[j].attempts]]
            /\ pc' = [pc EXCEPT ![f] = "update"]
    /\ UNCHANGED <<clock, jobs, isProcessing, processingInterval, timers, tickError,
                   failLocal>>
    /\ UNCHANGED nonQueueVars

\* getNextJob, second prisma call: update where id, then return job;
\* processNextJob enters the switch and the handler starts
getNextJobUpdate(f) ==
    /\ pc[f] = "update"
    /\ IF Gone(tickJob[f].id)
       THEN /\ pc' = [pc EXCEPT ![f] = "idle"]
            /\ tickJob' = [tickJob EXCEPT ![f] = NoJob]
            /\ UNCHANGED jobs
       ELSE /\ jobs' = [jobs EXCEPT ![tickJob[f].id] =
                  [@ EXCEPT !.status = "RUNNING", !.attempts = @ + 1]]
            /\ pc' = [pc EXCEPT ![f] = "dispatch"]
            /\ UNCHANGED tickJob
    /\ UNCHANGED <<clock, isProcessing, processingInterval, timers,
                   tickError, failLocal>>
    /\ UNCHANGED nonQueueVars

\* completeJob: one prisma update
completeJob(jobId) ==
    jobs' = IF Gone(jobId) THEN jobs
            ELSE [jobs EXCEPT ![jobId] = [@ EXCEPT !.status = "COMPLETED",
                                                   !.completedAt = Some(clock)]]

\* the switch of processNextJob found a case, the handler returned and
\* processNextJob calls completeJob
HandlerReturns(f) ==
    /\ pc[f] = "dispatch"
    /\ jobs[tickJob[f].id].type \in HandledTypes
    /\ completeJob(tickJob[f].id)
    /\ pc' = [pc EXCEPT ![f] = "idle"]
    /\ tickJob' = [tickJob EXCEPT ![f] = NoJob]
    /\ UNCHANGED <<clock, isProcessing, processingInterval, timers, tickError,
                   failLocal>>
    /\ UNCHANGED nonQueueVars

\* failJob, first prisma call: findUnique; shouldRetry and nextScheduledAt
\* are then computed from the row read and from Date.now()
failJobFind(f) ==
    failLocal' = [failLocal EXCEPT ![f] =
          [attempts |-> jobs[tickJob[f].id].attempts,
           maxAttempts |-> jobs[tickJob[f].id].maxAttempts,
           now |-> clock]]

\* the handler threw: the process*Job wrapper prefixes the message, sets
\* jobId on the error and rethrows; processNextJob's catch calls failJob,
\* which returns at once when findUnique finds no row
HandlerThrows(f) ==
    /\ pc[f] = "dispatch"
    /\ jobs[tickJob[f].id].type \in HandledTypes
    /\ IF Gone(tickJob[f].id)
       THEN /\ pc' = [pc EXCEPT ![f] = "idle"]
            /\ tickJob' = [tickJob EXCEPT ![f] = NoJob]
            /\ UNCHANGED <<tickError, failLocal>>
       ELSE /\ tickError' = [tickError EXCEPT ![f] =
                  [message |-> ErrorMessage(jobs[tickJob[f].id].type),
                   hasJobId |-> TRUE]]
            /\ failJobFind(f)
            /\ pc' = [pc EXCEPT ![f] = "failUpdate"]
            /\ UNCHANGED tickJob
    /\ UNCHANGED <<clock, jobs, isProcessing, processingInterval, timers>>
    /\ UNCHANGED nonQueueVars

\* default branch of the switch: throw new Error('Unknown job type'); the
\* error carries no jobId, so the catch only logs it and the tick ends
UnknownJobType(f) ==
    /\ pc[f] = "dispatch"
    /\ jobs[tickJob[f].id].type \notin HandledTypes
    /\ pc' = [pc EXCEPT ![f] = "idle"]
    /\ tickJob' = [tickJob EXCEPT ![f] = NoJob]
    /\ UNCHANGED <<clock, jobs, isProcessing, processingInterval, timers, tickError,
                   failLocal>>
    /\ UNCHANGED nonQueueVars

shouldRetry(f) == failLocal[f].attempts < failLocal[f].maxAttempts

nextScheduledAt(f) ==
    failLocal[f].now + calculateBackoffDelay(failLocal[f].attempts)

\* failJob, second prisma call: update where id (it throws when the row
\* is gone); the tick ends
failJobUpdate(f) ==
    /\ pc[f] = "failUpdate"
    /\ jobs' = IF Gone(tickJob[f].id) THEN jobs
               ELSE [jobs EXCEPT ![tickJob[f].id] =
          [@ EXCEPT !.status = IF shouldRetry(f) THEN "QUEUED" ELSE "FAILED",
                    !.lastError = tickError[f].message,
                    !.scheduledAt = IF shouldRetry(f) THEN nextScheduledAt(f)
                                    ELSE @]]
    /\ pc' = [pc EXCEPT ![f] = "idle"]
    /\ tickJob' = [tickJob EXCEPT ![f] = NoJob]
    /\ tickError' = [tickError EXCEPT ![f] = NoError]
    /\ failLocal' = [failLocal EXCEPT ![f] = NoFail]
    /\ UNCHANGED <<clock, isProcessing, processingInterval, timers>>
    /\ UNCHANGED nonQueueVars

Next ==
    \/ Tick
    \/ Enqueue
    \/ \E i \in Instances : startProcessing(i)
    \/ \E i \in Instances : stopProcessing(i)
    \/ \E f \in Flows : getNextJobFind(f)
    \/ \E f \in Flows : getNextJobUpdate(f)
    \/ \E f \in Flows : HandlerReturns(f)
    \/ \E f \in Flows : HandlerThrows(f)
    \/ \E f \in Flows : UnknownJobType(f)
    \/ \E f \in Flows : failJobUpdate(f)

Spec == Init /\ [][Next]_vars

\* ---- the API client of src/lib/meta.ts ----
(***************************************************************************)
(* RateLimiter and MetaGraphAPI.makeRequest.  A call is one invocation of  *)
(* makeRequest on one MetaGraphAPI object; calls overlap at their awaits   *)
(* (the limiter's sleep, fetch, the backoff sleep).  The limiter of the    *)
(* source is constructed with 200 requests per 3 600 000 ms; the model     *)
(* constructs it with maxRequests and timeWindow below so that a full      *)
(* window is reached within a few calls.  A timer set by sleep(ms) fires   *)
(* when its time has come: the clock does not pass the wake-up time of a   *)
(* sleeping call.  The upstream answers faster than the clock's step.      *)
(***************************************************************************)
\* granularity of the API client's clock (ms): the shortest backoff delay
ApiTimeStep == retryBaseDelay
\* window the RateLimiter is constructed with (ms)
timeWindow == 3 * ApiTimeStep

\* Math.min(...this.requests)
MinOf(seq) ==
    CHOOSE t \in {seq[i] : i \in 1..Len(seq)} :
        \A i \in 1..Len(seq) : t <= seq[i]

\* this.requests.filter(time => now - time < this.timeWindow)
filterRequests(seq, now) ==
    SelectSeq(seq, LAMBDA time : now - time < timeWindow)

\* Math.min(1000 * Math.pow(2, attempt), 30000), taken one attempt late
retryDelayNextAttempt(attempt) ==
    Min(retryBaseDelay * Pow2(attempt + 1), retryMaxDelay)

\* Math.min(1000 * Math.pow(2, attempt), 30000)
retryDelay(attempt) == Min(retryBaseDelay * Pow2(attempt), retryMaxDelay)

Sleeping(c) == call[c].pc \in {"limitSleep", "backoff"}

\* time passes, up to the next timer that is due; an answer of the upstream
\* arrives within one step of the clock
ApiTick ==
    /\ clock < MaxApiClock
    /\ \A c \in Calls : Sleeping(c) => call[c].wakeAt > clock
    /\ \A c \in Calls : call[c].pc # "fetch"
    /\ clock' = clock + ApiTimeStep
    /\ UNCHANGED <<requests, call, sent>>
    /\ UNCHANGED nonApiVars

\* makeRequest starts on object a and calls rateLimiter.checkLimit(): the
\* window is pruned; when it is full the call sleeps, otherwise now is
\* pushed and the call goes on to the retry loop with attempt = 0
checkLimit(c, a) ==
    /\ call[c].pc = "idle"
    /\ \A k \in Calls : k < c => call[k].pc # "idle"
    /\ LET now == clock
           kept == filterRequests(requests[a], now)
       IN IF Len(kept) >= maxRequests
          THEN /\ requests' = [requests EXCEPT ![a] = kept]
               /\ call' = [call EXCEPT ![c] =
                     [@ EXCEPT !.pc = "limitSleep", !.api = a, !.now = now,
                               !.wakeAt = now + (timeWindow
                                                 - (now - MinOf(kept)))]]
          ELSE /\ requests' = [requests EXCEPT ![a] = Append(kept, now)]
               /\ call' = [call EXCEPT ![c] =
                     [@ EXCEPT !.pc = "fetch", !.api = a, !.now = now,
                               !.admittedAt = clock]]
    /\ UNCHANGED <<clock, sent>>
    /\ UNCHANGED nonApiVars

\* the limiter's sleep is over: checkLimit pushes the now it read before the
\* sleep and returns; the retry loop starts with attempt = 0
checkLimitWake(c) ==
    /\ call[c].pc = "limitSleep"
    /\ clock >= call[c].wakeAt
    /\ requests' = [requests EXCEPT ![call[c].api] = Append(@, call[c].now)]
    /\ call' = [call EXCEPT ![c] =
          [@ EXCEPT !.pc = "fetch", !.admittedAt = clock, !.wakeAt = 0]]
    /\ UNCHANGED <<clock, sent>>
    /\ UNCHANGED nonApiVars

\* one pass of the retry loop: fetch sends the request and r comes back.
\* 429: sleep(delay), continue.  2xx: return response.json().  Any other
\* status throws inside the try, a rejected fetch throws as well: the catch
\* rethrows on the last attempt and sleeps the delay otherwise.
fetch(c, r) ==
    /\ call[c].pc = "fetch"
    /\ r # "ok" => c \in FailingCalls
    /\ sent' = sent \cup {[api |-> call[c].api, call |-> c,
                           attempt |-> call[c].attempt, time |-> clock]}
    /\ call' = [call EXCEPT ![c] =
          IF r = "ok"
          THEN [@ EXCEPT !.pc = "returned", !.response = r]
          ELSE IF r # "429" /\ call[c].attempt = maxRetries - 1
          THEN [@ EXCEPT !.pc = "thrown", !.response = r]
          ELSE [@ EXCEPT !.pc = "backoff", !.response = r,
                         !.wakeAt = clock + retryDelay(call[c].attempt)]]
    /\ UNCHANGED <<clock, requests>>
    /\ UNCHANGED nonApiVars

\* the backoff sleep is over: attempt++, and either the next pass of the
\* loop or, after the loop, throw new Error('Max retries exceeded')
backoffWake(c) ==
    /\ call[c].pc = "backoff"
    /\ clock >= call[c].wakeAt
    /\ call' = [call EXCEPT ![c] =
          [@ EXCEPT !.attempt = @ + 1, !.wakeAt = 0,
                    !.pc = IF call[c].attempt + 1 < maxRetries
                           THEN "fetch" ELSE "thrown"]]
    /\ UNCHANGED <<clock, requests, sent>>
    /\ UNCHANGED nonApiVars

ApiNext ==
    \/ ApiTick
    \/ \E c \in Calls, a \in Apis : checkLimit(c, a)
    \/ \E c \in Calls : checkLimitWake(c)
    \/ \E c \in Calls, r \in Responses : fetch(c, r)
    \/ \E c \in Calls : backoffWake(c)

SpecApi == Init /\ [][ApiNext]_vars

\* ---- the paginated helpers of src/lib/meta.ts ----
(***************************************************************************)
(* getPagePosts, getPostComments, getInstagramPosts, getInstagramComments: *)
(* a do-while loop around makeRequest.  The upstream holds the items       *)
(* 1..total of the listed edge and serves them in pages of pageSize items  *)
(* (the Graph API may return fewer items than the limit asked for); a page *)
(* that is not the last carries paging.next.                               *)
(***************************************************************************)
\* the default of the limit parameter; no caller passes another value
limitOf(h) ==
    IF h \in {"getPagePosts", "getInstagramPosts"}
    THEN postsLimit ELSE commentsLimit

\* the safety limit in the loop condition
itemCap(h) ==
    IF h \in {"getPagePosts", "getInstagramPosts"}
    THEN postsCap ELSE commentsCap

\* result sets a listing is run against: empty, one item, one item more
\* than a page, and more than the helper ever collects
Totals(h) == {0, 1, limitOf(h) + 1, 2 * itemCap(h)}
\* the sizes of the pages an upstream serves: the limit asked for, somewhat
\* fewer, or none at all (a page whose items were all filtered out still
\* carries paging.next while the edge has items)
PageSizes(h) == {0} \cup ((limitOf(h) - MaxShortfall)..limitOf(h))

\* the page the upstream serves for a request at cursor `after` (Null: the
\* request names no cursor and gets the first page)
upstreamPage(after) ==
    LET offset == IF after = Null THEN 0 ELSE Val(after)
        last == Min(offset + upstream.pageSize, upstream.total)
    IN [data |-> [i \in 1..(last - offset) |-> offset + i],
        next |-> IF last < upstream.total THEN Some(last) ELSE Null]

\* the cursor of the request a pass of the loop makes: params is built from
\* fields, limit, since and until only, and the endpoint is the edge itself;
\* nextUrl is assigned and tested but never put into a request
requestCursor == Null

\* a helper is called: items = [], nextUrl undefined
listStart(h, total, size) ==
    /\ listing.pc = "idle"
    /\ upstream' = [total |-> total, pageSize |-> size]
    /\ listing' = [helper |-> h, pc |-> "request", items |-> <<>>,
                   nextUrl |-> Null, requests |-> 0]
    /\ UNCHANGED nonListVars

\* one pass of the do-while loop: makeRequest returns a page, its data is
\* pushed whole, nextUrl is set, and then the loop condition is tested;
\* requests counts the calls of makeRequest the helper has made (each one
\* is pushed on the rate limiter's list), up to MaxListRequests
listRequest ==
    /\ listing.pc = "request"
    /\ listing.requests < MaxListRequests
    /\ LET response == upstreamPage(requestCursor)
           items == listing.items \o response.data
       IN listing' = [listing EXCEPT
              !.items = items,
              !.nextUrl = response.next,
              !.requests = @ + 1,
              !.pc = IF response.next # Null
                        /\ Len(items) < itemCap(listing.helper)
                     THEN "request" ELSE "done"]
    /\ UNCHANGED upstream
    /\ UNCHANGED nonListVars

\* makeRequest throws: the helper rejects and returns nothing
listRequestThrows ==
    /\ listing.pc = "request"
    /\ listing' = [listing EXCEPT !.pc = "thrown"]
    /\ UNCHANGED upstream
    /\ UNCHANGED nonListVars

ListNext ==
    \/ \E h \in Helpers :
         \E total \in Totals(h), size \in PageSizes(h) :
            listStart(h, total, size)
    \/ listRequest
    \/ listRequestThrows

SpecList == Init /\ [][ListNext]_vars

\* ---- the handlers of src/lib/workers ----
(***************************************************************************)
(* The fetch route enqueues one FETCH_POSTS job and starts the scheduler;  *)
(* the ticks of the scheduler claim the jobs with getNextJob as above and  *)
(* run the handlers.  fetchPostsForPage and fetchCommentsForPost are taken *)
(* as one step each, with the completeJob that follows them;               *)
(* analyzeSentiment is two steps, split at the await between its           *)
(* findFirst and its create.  The listings return every upstream item      *)
(* once, no handler throws and the clock stands still.                     *)
(***************************************************************************)
NumRows == Cardinality({j \in RowIds : Exists(j)})

\* the row enqueue creates when maxAttempts and scheduledAt are left out
QueuedRow(type) ==
    [type |-> type, status |-> "QUEUED", attempts |-> 0,
     maxAttempts |-> DefaultMaxAttempts, scheduledAt |-> clock,
     lastError |-> "null", completedAt |-> Null]

\* the fetched posts that have comments, in the order of the upsert loop
postsWithComments ==
    SelectSeq([i \in 1..MaxPosts |-> i], LAMBDA p : commentCount[p] > 0)

\* the fetched comments of a post, in the order of the upsert loop
fetchedComments(postId) ==
    SelectSeq([i \in 1..MaxComments |-> i], LAMBDA c : c \in commentsOf[postId])

\* the Job table after queue.enqueue(type, {id: args[i]}) for each i in turn
jobsAfterEnqueue(type, args) ==
    [j \in RowIds |->
        IF NumRows < j /\ j <= NumRows + Len(args)
        THEN QueuedRow(type) ELSE jobs[j]]

payloadAfterEnqueue(args) ==
    [j \in RowIds |->
        IF NumRows < j /\ j <= NumRows + Len(args)
        THEN args[j - NumRows] ELSE payload[j]]

\* a create where the upsert is: a row is added whether or not one exists
createRow(table, key) == [table EXCEPT ![key] = @ + 1]

\* prisma upsert where externalId_platform: the row of the key is updated
\* when there is one and created otherwise
upsert(table, key) == [table EXCEPT ![key] = IF @ = 0 THEN 1 ELSE @]

RECURSIVE upsertAll(_, _)
upsertAll(table, keys) ==
    IF keys = {} THEN table
    ELSE LET k == CHOOSE x \in keys : TRUE
         IN upsertAll(upsert(table, k), keys \ {k})

\* the keys that have a row
Rows(table) == {k \in DOMAIN table : table[k] > 0}

\* POST of the fetch route: queue.enqueue(FETCH_POSTS, {pageId}) on the
\* empty table; the route then calls startProcessing
enqueueFetchPosts ==
    /\ NumRows = 0
    /\ enqueue("FETCH_POSTS", DefaultMaxAttempts, Null)

\* processFetchPostsJob: fetchPostsForPage upserts every fetched post and
\* enqueues FETCH_COMMENTS for each post with commentCount > 0; then
\* processNextJob calls completeJob
processFetchPostsJob(f) ==
    /\ pc[f] = "dispatch"
    /\ jobs[tickJob[f].id].type = "FETCH_POSTS"
    /\ LET args == postsWithComments
       IN /\ NumRows + Len(args) <= MaxPipelineJobs
          /\ posts' = upsertAll(posts, PostIds)
          /\ jobs' = [jobsAfterEnqueue("FETCH_COMMENTS", args)
                         EXCEPT ![tickJob[f].id].status = "COMPLETED",
                                ![tickJob[f].id].completedAt = Some(clock)]
          /\ payload' = payloadAfterEnqueue(args)
    /\ pc' = [pc EXCEPT ![f] = "idle"]
    /\ tickJob' = [tickJob EXCEPT ![f] = NoJob]
    /\ UNCHANGED <<clock, isProcessing, processingInterval, timers, tickError,
                   failLocal, comments, analysisRows>>
    /\ UNCHANGED <<apiVars, listVars, extraVars>>

\* processFetchCommentsJob: fetchCommentsForPost upserts every fetched
\* comment of the post and enqueues ANALYZE_SENTIMENT for each of them; then
\* processNextJob calls completeJob
processFetchCommentsJob(f) ==
    /\ pc[f] = "dispatch"
    /\ jobs[tickJob[f].id].type = "FETCH_COMMENTS"
    /\ LET postId == payload[tickJob[f].id]
           args == fetchedComments(postId)
       IN /\ NumRows + Len(args) <= MaxPipelineJobs
          /\ comments' = upsertAll(comments, commentsOf[postId])
          /\ jobs' = [jobsAfterEnqueue("ANALYZE_SENTIMENT", args)
                         EXCEPT ![tickJob[f].id].status = "COMPLETED",
                                ![tickJob[f].id].completedAt = Some(clock)]
          /\ payload' = payloadAfterEnqueue(args)
    /\ pc' = [pc EXCEPT ![f] = "idle"]
    /\ tickJob' = [tickJob EXCEPT ![f] = NoJob]
    /\ UNCHANGED <<clock, isProcessing, processingInterval, timers, tickError,
                   failLocal, posts, analysisRows>>
    /\ UNCHANGED <<apiVars, listVars, extraVars>>

\* processAnalyzeSentimentJob: analyzeSentiment reads the comment and looks
\* for an Analysis row with findFirst; when there is one it returns and
\* processNextJob calls completeJob, otherwise it goes on to the engine
analyzeSentimentFind(f) ==
    /\ pc[f] = "dispatch"
    /\ jobs[tickJob[f].id].type = "ANALYZE_SENTIMENT"
    /\ IF analysisRows[payload[tickJob[f].id]] > 0
       THEN /\ completeJob(tickJob[f].id)
            /\ pc' = [pc EXCEPT ![f] = "idle"]
            /\ tickJob' = [tickJob EXCEPT ![f] = NoJob]
       ELSE /\ pc' = [pc EXCEPT ![f] = "create"]
            /\ UNCHANGED <<jobs, tickJob>>
    /\ UNCHANGED <<clock, isProcessing, processingInterval, timers, tickError,
                   failLocal>>
    /\ UNCHANGED nonQueueVars

\* analyzeSentiment after engine.analyze: prisma.analysis.create; then
\* processNextJob calls completeJob
analyzeSentimentCreate(f) ==
    /\ pc[f] = "create"
    /\ analysisRows' = [analysisRows EXCEPT ![payload[tickJob[f].id]] = @ + 1]
    /\ completeJob(tickJob[f].id)
    /\ pc' = [pc EXCEPT ![f] = "idle"]
    /\ tickJob' = [tickJob EXCEPT ![f] = NoJob]
    /\ UNCHANGED <<clock, isProcessing, processingInterval, timers, tickError,
                   failLocal, payload, posts, comments>>
    /\ UNCHANGED <<apiVars, listVars, extraVars>>

PipelineNext ==
    \/ enqueueFetchPosts
    \/ \E i \in Instances : startProcessing(i)
    \/ \E f \in Flows : getNextJobFind(f)
    \/ \E f \in Flows : getNextJobUpdate(f)
    \/ \E f \in Flows : processFetchPostsJob(f)
    \/ \E f \in Flows : processFetchCommentsJob(f)
    \/ \E f \in Flows : analyzeSentimentFind(f)
    \/ \E f \in Flows : analyzeSentimentCreate(f)

SpecPipeline == Init /\ [][PipelineNext]_vars

\* ---- the fetch workers, step by step ----
(***************************************************************************)
(* fetchPostsForPage and fetchCommentsForPost with their awaits: the token *)
(* check, the upsert loop one item at a time, and the enqueue after each   *)
(* upsert.  Any await may throw (the database, the network); enqueue       *)
(* throws when the Job table of the model is full.  The error goes through *)
(* the process*Job wrapper to processNextJob's catch and to failJob, and   *)
(* the retry runs the worker again on the same upstream data, possibly     *)
(* while another tick runs it as well.  The listing helpers hand back the  *)
(* upstream page once, or twice over when the upstream names a next page.  *)
(* The clock moves between the runs of the ticks.  The locals of a run are *)
(* dropped when it throws, except for the answer of the token check.       *)
(***************************************************************************)
pageOfPosts == [i \in 1..MaxPosts |-> i]
FetchedPostLists == {pageOfPosts, pageOfPosts \o pageOfPosts}
FetchedCommentLists(postId) ==
    {fetchedComments(postId), fetchedComments(postId) \o fetchedComments(postId)}

InvalidTokenMessage == "Failed to fetch posts: Invalid token for page"

TickBetweenRuns ==
    /\ \A f \in Flows : pc[f] = "idle"
    /\ Tick

\* the worker threw: wrapper, catch of processNextJob, failJob's findUnique
throwToFailJob(f, message) ==
    /\ tickError' = [tickError EXCEPT ![f] =
          [message |-> message, hasJobId |-> TRUE]]
    /\ failJobFind(f)
    /\ pc' = [pc EXCEPT ![f] = "failUpdate"]

\* a token check that lets every answer pass
fetchPostsNeverThrows(isValid) == FALSE

\* if (!isValid) throw new Error('Invalid token for page: ...')
fetchPostsThrows(isValid) == ~isValid

\* processFetchPostsJob calls fetchPostsForPage: the page is found and its
\* token decrypted
fetchPostsForPage(f) ==
    /\ pc[f] = "dispatch"
    /\ jobs[tickJob[f].id].type = "FETCH_POSTS"
    /\ pc' = [pc EXCEPT ![f] = "validate"]
    /\ fetchRun' = [fetchRun EXCEPT ![f] = NoRun]
    /\ UNCHANGED <<clock, jobs, isProcessing, processingInterval, timers, tickJob,
                   tickError, failLocal>>
    /\ UNCHANGED <<apiVars, listVars, dataVars, crypto, sweep, refreshVars,
                   cleanupVars>>

\* api.validateToken() answers; on true the posts are fetched
validateToken(f, isValid) ==
    /\ pc[f] = "validate"
    /\ IF fetchPostsThrows(isValid)
       THEN /\ throwToFailJob(f, InvalidTokenMessage)
            /\ fetchRun' = [fetchRun EXCEPT ![f].isValid = Some(isValid)]
       ELSE /\ \E list \in FetchedPostLists :
                fetchRun' = [fetchRun EXCEPT ![f].isValid = Some(isValid),
                                             ![f].items = list]
            /\ pc' = [pc EXCEPT ![f] = "upsertPost"]
            /\ UNCHANGED <<tickError, failLocal>>
    /\ UNCHANGED <<clock, jobs, isProcessing, processingInterval, timers, tickJob>>
    /\ UNCHANGED <<apiVars, listVars, dataVars, crypto, sweep, refreshVars,
                   cleanupVars>>

\* one round of the loop over posts: upsert, then enqueue FETCH_COMMENTS
\* when the post has comments
upsertPost(f) ==
    /\ pc[f] = "upsertPost"
    /\ fetchRun[f].items # <<>>
    /\ LET postId == Head(fetchRun[f].items)
       IN /\ posts' = upsert(posts, postId)
          /\ IF commentCount[postId] > 0 /\ NumRows >= MaxFetchJobs
             THEN /\ throwToFailJob(f, ErrorMessage("FETCH_POSTS"))
                  /\ fetchRun' = [fetchRun EXCEPT ![f] = NoRun]
                  /\ UNCHANGED <<jobs, payload>>
             ELSE /\ IF commentCount[postId] > 0
                     THEN /\ jobs' = jobsAfterEnqueue("FETCH_COMMENTS",
                                                      <<postId>>)
                          /\ payload' = payloadAfterEnqueue(<<postId>>)
                     ELSE UNCHANGED <<jobs, payload>>
                  /\ fetchRun' = [fetchRun EXCEPT
                        ![f].items = Tail(@), ![f].wrote = TRUE]
                  /\ UNCHANGED <<pc, tickError, failLocal>>
    /\ UNCHANGED <<clock, isProcessing, processingInterval, timers, tickJob,
                   comments, analysisRows>>
    /\ UNCHANGED <<apiVars, listVars, crypto, sweep, refreshVars,
                   cleanupVars>>

\* the loop is over, fetchPostsForPage returns and processNextJob calls
\* completeJob
fetchPostsReturns(f) ==
    /\ pc[f] = "upsertPost"
    /\ fetchRun[f].items = <<>>
    /\ completeJob(tickJob[f].id)
    /\ pc' = [pc EXCEPT ![f] = "idle"]
    /\ tickJob' = [tickJob EXCEPT ![f] = NoJob]
    /\ fetchRun' = [fetchRun EXCEPT ![f] = NoRun]
    /\ UNCHANGED <<clock, isProcessing, processingInterval, timers, tickError,
                   failLocal>>
    /\ UNCHANGED <<apiVars, listVars, dataVars, crypto, sweep, refreshVars,
                   cleanupVars>>

\* processFetchCommentsJob calls fetchCommentsForPost: the post is found,
\* the token decrypted and the comments fetched
fetchCommentsForPost(f) ==
    /\ pc[f] = "dispatch"
    /\ jobs[tickJob[f].id].type = "FETCH_COMMENTS"
    /\ \E list \in FetchedCommentLists(payload[tickJob[f].id]) :
          fetchRun' = [fetchRun EXCEPT ![f] = [NoRun EXCEPT !.items = list]]
    /\ pc' = [pc EXCEPT ![f] = "upsertComment"]
    /\ UNCHANGED <<clock, jobs, isProcessing, processingInterval, timers, tickJob,
                   tickError, failLocal>>
    /\ UNCHANGED <<apiVars, listVars, dataVars, crypto, sweep, refreshVars,
                   cleanupVars>>

\* one round of the loop over comments: upsert, then enqueue
\* ANALYZE_SENTIMENT
upsertComment(f) ==
    /\ pc[f] = "upsertComment"
    /\ fetchRun[f].items # <<>>
    /\ LET commentId == Head(fetchRun[f].items)
       IN /\ comments' = upsert(comments, commentId)
          /\ IF NumRows >= MaxFetchJobs
             THEN /\ throwToFailJob(f, ErrorMessage("FETCH_COMMENTS"))
                  /\ fetchRun' = [fetchRun EXCEPT ![f] = NoRun]
                  /\ UNCHANGED <<jobs, payload>>
             ELSE /\ jobs' = jobsAfterEnqueue("ANALYZE_SENTIMENT",
                                              <<commentId>>)
                  /\ payload' = payloadAfterEnqueue(<<commentId>>)
                  /\ fetchRun' = [fetchRun EXCEPT
                        ![f].items = Tail(@), ![f].wrote = TRUE]
                  /\ UNCHANGED <<pc, tickError, failLocal>>
    /\ UNCHANGED <<clock, isProcessing, processingInterval, timers, tickJob,
                   posts, analysisRows>>
    /\ UNCHANGED <<apiVars, listVars, crypto, sweep, refreshVars,
                   cleanupVars>>

\* the loop is over, fetchCommentsForPost returns and processNextJob calls
\* completeJob
fetchCommentsReturns(f) ==
    /\ pc[f] = "upsertComment"
    /\ fetchRun[f].items = <<>>
    /\ completeJob(tickJob[f].id)
    /\ pc' = [pc EXCEPT ![f] = "idle"]
    /\ tickJob' = [tickJob EXCEPT ![f] = NoJob]
    /\ fetchRun' = [fetchRun EXCEPT ![f] = NoRun]
    /\ UNCHANGED <<clock, isProcessing, processingInterval, timers, tickError,
                   failLocal>>
    /\ UNCHANGED <<apiVars, listVars, dataVars, crypto, sweep, refreshVars,
                   cleanupVars>>

\* an await of the worker throws: a database call or the network failed
workerThrows(f) ==
    /\ pc[f] \in {"validate", "upsertPost", "upsertComment"}
    /\ throwToFailJob(f, ErrorMessage(jobs[tickJob[f].id].type))
    /\ fetchRun' = [fetchRun EXCEPT ![f] = NoRun]
    /\ UNCHANGED <<clock, jobs, isProcessing, processingInterval, timers, tickJob>>
    /\ UNCHANGED <<apiVars, listVars, dataVars, crypto, sweep, refreshVars,
                   cleanupVars>>

\* the workers are run by one tick at a time here
FetchFlows == {f \in Flows : f[2] = 1}

FetchNext ==
    \/ enqueueFetchPosts
    \/ \E i \in Instances : startProcessing(i)
    \/ TickBetweenRuns
    \/ \E f \in FetchFlows : getNextJobFind(f)
    \/ \E f \in FetchFlows : getNextJobUpdate(f)
    \/ \E f \in FetchFlows : fetchPostsForPage(f)
    \/ \E f \in FetchFlows, isValid \in BOOLEAN : validateToken(f, isValid)
    \/ \E f \in FetchFlows : upsertPost(f)
    \/ \E f \in FetchFlows : fetchPostsReturns(f)
    \/ \E f \in FetchFlows : fetchCommentsForPost(f)
    \/ \E f \in FetchFlows : upsertComment(f)
    \/ \E f \in FetchFlows : fetchCommentsReturns(f)
    \/ \E f \in FetchFlows : workerThrows(f)
    \/ \E f \in FetchFlows : failJobUpdate(f)
    \/ \E f \in FetchFlows : analyzeSentimentFind(f)
    \/ \E f \in FetchFlows : analyzeSentimentCreate(f)

SpecFetch == Init /\ [][FetchNext]_vars

\* ---- TokenEncryption of src/lib/meta.ts ----
(***************************************************************************)
(* encrypt and decrypt as pure functions.  A text is the sequence of its   *)
(* code points, a buffer a sequence of bytes, a hex string a sequence of   *)
(* characters: 0..15 for the hex digits and NonHex for any other           *)
(* character.  An envelope is the sequence of its colon-separated          *)
(* segments, which is what split(':') returns.  AES-256-GCM itself is      *)
(* taken as an ideal primitive: a keystream that is added to the bytes,    *)
(* and a 16-byte tag that determines the ciphertext already by its first   *)
(* four bytes.  crypto.createCipher and crypto.createDecipher take key and *)
(* IV from the password alone; they exist up to Node.js 21 and are gone    *)
(* from Node.js 22 on, and the project asks for Node.js 18+.               *)
(***************************************************************************)
NonHex == 16
HexChars == 0..NonHex

\* the texts the functions are applied to: empty, ASCII, two-byte UTF-8
Plaintexts == {<<>>, <<65>>, <<233>>, <<65, 233>>, <<233, 65>>, <<65, 66, 67>>}
\* values of crypto.randomBytes(16), as hex strings
IVs == {[k \in 1..32 |-> 0], [k \in 1..32 |-> 15]}

RECURSIVE utf8Encode(_)
utf8Encode(text) ==
    IF text = <<>> THEN <<>>
    ELSE (IF Head(text) < 128
          THEN <<Head(text)>>
          ELSE <<192 + (Head(text) \div 64), 128 + (Head(text) % 64)>>)
         \o utf8Encode(Tail(text))

RECURSIVE utf8Decode(_)
utf8Decode(bytes) ==
    IF bytes = <<>> THEN <<>>
    ELSE IF Head(bytes) < 128
    THEN <<Head(bytes)>> \o utf8Decode(Tail(bytes))
    ELSE IF Len(bytes) >= 2 /\ Head(bytes) >= 192 /\ bytes[2] \in 128..191
    THEN <<(Head(bytes) - 192) * 64 + (bytes[2] - 128)>>
         \o utf8Decode(Tail(Tail(bytes)))
    ELSE <<65533>> \o utf8Decode(Tail(bytes))

\* buffer.toString('hex')
hexEncode(bytes) ==
    [k \in 1..(2 * Len(bytes)) |->
        IF k % 2 = 1 THEN bytes[(k + 1) \div 2] \div 16
        ELSE bytes[k \div 2] % 16]

\* Buffer.from(string, 'hex'): decoding stops at the first pair that is not
\* two hex digits, and a single trailing character is dropped
RECURSIVE hexDecodeFrom(_, _)
hexDecodeFrom(chars, k) ==
    IF k + 1 > Len(chars) \/ chars[k] = NonHex \/ chars[k + 1] = NonHex
    THEN <<>>
    ELSE <<16 * chars[k] + chars[k + 1]>> \o hexDecodeFrom(chars, k + 2)

hexDecode(chars) == hexDecodeFrom(chars, 1)

\* the cipher of aes-256-gcm under the key and IV derived from the password
keystream(i) == (37 * i + 11) % 256
cipherBytes(bytes) == [i \in 1..Len(bytes) |-> (bytes[i] + keystream(i)) % 256]
decipherBytes(bytes) ==
    [i \in 1..Len(bytes) |-> (bytes[i] + 256 - keystream(i)) % 256]

RECURSIVE digest(_)
digest(bytes) ==
    IF bytes = <<>> THEN 0 ELSE (Head(bytes) + 1) + 257 * digest(Tail(bytes))

\* cipher.getAuthTag(): 16 bytes
authTagOf(bytes) ==
    LET h == digest(bytes)
    IN [j \in 1..16 |->
          CASE j = 1 -> h % 256
            [] j = 2 -> (h \div 256) % 256
            [] j = 3 -> (h \div 65536) % 256
            [] j = 4 -> (h \div 16777216) % 256
            [] OTHER -> (h + j) % 256]

\* tag lengths decipher.setAuthTag accepts for GCM (bytes)
ValidTagLengths == {4, 8, 12, 13, 14, 15, 16}

\* TokenEncryption.encrypt(text): iv:authTag:encrypted, all in hex
encrypt(text, iv, legacyApi) ==
    IF ~legacyApi THEN Failure
    ELSE LET encrypted == cipherBytes(utf8Encode(text))
         IN Success(<<iv, hexEncode(authTagOf(encrypted)),
                      hexEncode(encrypted)>>)

\* TokenEncryption.decrypt(encryptedText): parts[0] is decoded and not
\* used, parts[1] is the tag, parts[2] the ciphertext; further parts are
\* not looked at.  Buffer.from(undefined) and update(undefined) throw, so
\* does setAuthTag for a length GCM does not allow, and final() throws
\* when the tag does not match the ciphertext.
decrypt(parts, legacyApi) ==
    IF ~legacyApi \/ Len(parts) < 3 THEN Failure
    ELSE LET authTag == hexDecode(parts[2])
             encrypted == hexDecode(parts[3])
         IN IF Len(authTag) \notin ValidTagLengths THEN Failure
            ELSE IF authTag # SubSeq(authTagOf(encrypted), 1, Len(authTag))
            THEN Failure
            ELSE Success(utf8Decode(decipherBytes(encrypted)))

\* the process runs on a Node.js that has createCipher (legacy) or not,
\* and encrypts a token
encryptToken(text, iv, legacyApi) ==
    /\ crypto.pc = "idle"
    /\ crypto' = [crypto EXCEPT !.pc = "encrypted", !.legacyApi = legacyApi,
                                !.plaintext = text,
                                !.envelope = encrypt(text, iv, legacyApi)]
    /\ UNCHANGED nonCryptoVars

\* the stored value changes: one character of segment seg is replaced
alterCharacter(seg, k, ch) ==
    /\ crypto.pc = "encrypted"
    /\ crypto.envelope.ok
    /\ crypto.altered = "none"
    /\ seg \in 2..3
    /\ k \in 1..Len(crypto.envelope.value[seg])
    /\ ch # crypto.envelope.value[seg][k]
    /\ crypto' = [crypto EXCEPT
          !.altered = IF seg = 2 THEN "tag" ELSE "ciphertext",
          !.envelope = Success([crypto.envelope.value EXCEPT ![seg][k] = ch])]
    /\ UNCHANGED nonCryptoVars

\* the stored value changes: segments are cut off or one is added
alterSegments(n) ==
    /\ crypto.pc = "encrypted"
    /\ crypto.envelope.ok
    /\ crypto.altered = "none"
    /\ n # 3
    /\ crypto' = [crypto EXCEPT
          !.altered = "segments",
          !.envelope = Success(
              IF n < 3 THEN SubSeq(crypto.envelope.value, 1, n)
              ELSE crypto.envelope.value \o <<crypto.envelope.value[1]>>)]
    /\ UNCHANGED nonCryptoVars

\* the stored value is decrypted
decryptToken ==
    /\ crypto.pc = "encrypted"
    /\ crypto.envelope.ok
    /\ crypto' = [crypto EXCEPT
          !.pc = "decrypted",
          !.result = decrypt(crypto.envelope.value, crypto.legacyApi)]
    /\ UNCHANGED nonCryptoVars

CryptoNext ==
    \/ \E text \in Plaintexts, iv \in IVs, legacyApi \in BOOLEAN :
          encryptToken(text, iv, legacyApi)
    \/ \E seg \in 2..3, k \in 1..32, ch \in HexChars : alterCharacter(seg, k, ch)
    \/ \E n \in 1..4 : alterSegments(n)
    \/ decryptToken

SpecCrypto == Init /\ [][CryptoNext]_vars

\* ---- the worker of src/lib/workers/refresh-tokens.ts ----
(***************************************************************************)
(* refreshExpiredTokens over the Page table.  A page is connected by the   *)
(* pages route, which stores the encrypted token with isActive true.  The  *)
(* Graph API holds for each token whether it is valid and whether it       *)
(* expires within seven days.  One round of the worker's loop is one step. *)
(* Pages are connected between the runs of the worker.  The process of a   *)
(* run, like the one of the route, is on a Node.js with or without         *)
(* createCipher and createDecipher.                                        *)
(***************************************************************************)
PageTokenText == <<65>>
FreshTokenText == <<65, 66>>

\* POST of the pages route: TokenEncryption.encrypt, then prisma.page.upsert
\* with isActive true; when encrypt throws the route stores nothing
connectPage(p, iv, legacyApi, token) ==
    /\ refresh.pc # "loop"
    /\ ~pages[p].present
    /\ encrypt(PageTokenText, iv, legacyApi).ok
    /\ pages' = [pages EXCEPT ![p] =
          [present |-> TRUE, isActive |-> TRUE,
           pageAccessToken |-> encrypt(PageTokenText, iv, legacyApi).value]]
    /\ graphTokens' = [graphTokens EXCEPT ![p] = token]
    /\ UNCHANGED <<coreVars, crypto, sweep, fetchRun, refresh, cleanupVars>>

\* prisma.page.findMany where isActive: the pages the loop goes through
activePages ==
    SelectSeq([i \in 1..MaxPages |-> i],
              LAMBDA p : pages[p].present /\ pages[p].isActive)

\* refreshExpiredTokens starts: findMany
refreshStart(legacyApi) ==
    /\ refresh.pc # "loop"
    /\ refresh' = [pc |-> "loop", legacyApi |-> legacyApi,
                   todo |-> activePages, before |-> pages]
    /\ UNCHANGED <<coreVars, crypto, sweep, fetchRun, pages, graphTokens,
                   cleanupVars>>

\* the row of the page after one round of the loop.  decrypt may throw:
\* the catch of the round counts an error and the row stays.  validateToken
\* is false when the token is invalid or when its request fails (answered
\* is false).  A valid token that expires soon is exchanged; the new token
\* is stored when the calls succeed and name the page (found) and encrypt
\* does not throw.  An invalid token sets isActive to false.
pageAfterRound(page, token, legacyApi, answered, found, iv) ==
    IF ~decrypt(page.pageAccessToken, legacyApi).ok THEN page
    ELSE IF token.valid /\ answered
    THEN IF token.expiresSoon /\ found
            /\ encrypt(FreshTokenText, iv, legacyApi).ok
         THEN [page EXCEPT !.pageAccessToken =
                              encrypt(FreshTokenText, iv, legacyApi).value]
         ELSE page
    ELSE [page EXCEPT !.isActive = FALSE]

\* one round of for (const page of pages)
refreshPage(answered, found, iv) ==
    /\ refresh.pc = "loop"
    /\ refresh.todo # <<>>
    /\ LET p == Head(refresh.todo)
       IN pages' = [pages EXCEPT ![p] =
             pageAfterRound(pages[p], graphTokens[p], refresh.legacyApi,
                            answered, found, iv)]
    /\ refresh' = [refresh EXCEPT !.todo = Tail(@)]
    /\ UNCHANGED <<coreVars, crypto, sweep, fetchRun, graphTokens,
                   cleanupVars>>

\* the loop is over and refreshExpiredTokens returns
refreshEnd ==
    /\ refresh.pc = "loop"
    /\ refresh.todo = <<>>
    /\ refresh' = [refresh EXCEPT !.pc = "done"]
    /\ UNCHANGED <<coreVars, crypto, sweep, fetchRun, pages, graphTokens,
                   cleanupVars>>

RefreshNext ==
    \/ \E p \in PageIds, iv \in IVs, legacyApi \in BOOLEAN,
          token \in [valid : BOOLEAN, expiresSoon : BOOLEAN] :
          connectPage(p, iv, legacyApi, token)
    \/ \E legacyApi \in BOOLEAN : refreshStart(legacyApi)
    \/ \E answered \in BOOLEAN, found \in BOOLEAN, iv \in IVs :
          refreshPage(answered, found, iv)
    \/ refreshEnd

SpecRefresh == Init /\ [][RefreshNext]_vars

\* ---- JobQueue.cleanupOldJobs ----
(***************************************************************************)
(* The retention sweep of the Job table, next to the operations of the     *)
(* queue that run while it runs.  Time passes in whole days here; a day is *)
(* taken as 24 hours (setDate counts calendar days of the local time zone).*)
(* A deleted row keeps its id and its type in the model, with status       *)
(* "DELETED": the database does not hand the id out again and the ticks    *)
(* that read the row before hold a copy of it.                             *)
(***************************************************************************)
msPerDay == 86400000
\* the arguments cleanupOldJobs is called with: one day, and the default
RetentionArgs == {1, DefaultOlderThanDays}

\* a day passes; a tick's database calls take less than a day
DayPasses ==
    /\ clock < MaxDays * msPerDay
    /\ \A f \in Flows : pc[f] = "idle"
    /\ clock' = clock + msPerDay
    /\ UNCHANGED <<jobs, isProcessing, processingInterval, timers, pc, tickJob,
                   tickError, failLocal>>
    /\ UNCHANGED nonQueueVars

\* a cutoff on the wrong side of now
cutoffDateAhead(now, olderThanDays) == now + olderThanDays * msPerDay

\* cutoffDate = new Date(); cutoffDate.setDate(getDate() - olderThanDays)
cutoffDate(now, olderThanDays) == now - olderThanDays * msPerDay

\* cleanupOldJobs(olderThanDays) up to its await: the cutoff is computed
cleanupOldJobsCall(olderThanDays) ==
    /\ sweep.pc = "idle"
    /\ sweep' = [pc |-> "deleteMany", now |-> clock, days |-> olderThanDays,
                 cutoffDate |-> cutoffDate(clock, olderThanDays), count |-> 0]
    /\ UNCHANGED <<queueVars, nonSweepVars>>

\* the where clause of deleteMany
deleteManyWhere(j) ==
    /\ jobs[j].status = "COMPLETED"
    /\ jobs[j].completedAt # Null
    /\ Val(jobs[j].completedAt) < sweep.cutoffDate

\* prisma.job.deleteMany runs and cleanupOldJobs returns result.count
cleanupOldJobsDeleteMany ==
    /\ sweep.pc = "deleteMany"
    /\ jobs' = [j \in RowIds |->
          IF deleteManyWhere(j)
          THEN [AbsentRow EXCEPT !.status = "DELETED", !.type = jobs[j].type]
          ELSE jobs[j]]
    /\ sweep' = [NoSweep EXCEPT
          !.count = Cardinality({j \in RowIds : deleteManyWhere(j)})]
    /\ UNCHANGED <<clock, isProcessing, processingInterval, timers, pc, tickJob,
                   tickError, failLocal>>
    /\ UNCHANGED nonSweepVars

RetentionNext ==
    \/ DayPasses
    \/ Enqueue
    \/ \E i \in Instances : startProcessing(i)
    \/ \E i \in Instances : stopProcessing(i)
    \/ \E f \in Flows : getNextJobFind(f)
    \/ \E f \in Flows : getNextJobUpdate(f)
    \/ \E f \in Flows : HandlerReturns(f)
    \/ \E f \in Flows : HandlerThrows(f)
    \/ \E f \in Flows : UnknownJobType(f)
    \/ \E f \in Flows : failJobUpdate(f)
    \/ \E olderThanDays \in RetentionArgs : cleanupOldJobsCall(olderThanDays)
    \/ cleanupOldJobsDeleteMany

SpecRetention == Init /\ [][RetentionNext]_vars

\* ---- the worker of src/lib/workers/cleanup-data.ts ----
(***************************************************************************)
(* cleanupUserData over the Post, Comment and Analysis tables.  All pages  *)
(* belong to the one user u1, all posts to page 1, and an Analysis row is  *)
(* known by its comment.  The rows are written as the workers write them   *)
(* (upsert of a post, upsert of a comment, create of an analysis), between *)
(* the runs of the cleanup, and time passes in whole days.  Each           *)
(* deleteMany is one step.  What the database does with the children of a  *)
(* deleted row is set by the schema: it deletes them (Cascade), refuses    *)
(* the delete (Restrict) or leaves them without parent (SetNull); the      *)
(* orphan sweep of the source deletes rows whose parent is null.           *)
(***************************************************************************)
Users == {"u1"}
OnDelete == {"Cascade", "Restrict", "SetNull"}
RetentionDaysArgs == {1}
postOf(c) == CHOOSE p \in PostIds : c \in commentsOf[p]
pageOf(p) == 1

deleteRows(table, keys) ==
    [k \in DOMAIN table |-> IF k \in keys THEN 0 ELSE table[k]]

\* the timestamps of the rows that are left
stampsOfRows(st, postTable, commentTable, analysisTable) ==
    [post |-> [p \in PostIds |-> IF postTable[p] = 0 THEN 0 ELSE st.post[p]],
     comment |-> [c \in CommentIds |->
                    IF commentTable[c] = 0 THEN 0 ELSE st.comment[c]],
     analysis |-> [c \in CommentIds |->
                    IF analysisTable[c] = 0 THEN 0 ELSE st.analysis[c]]]

cleanupRuns == cleanup.pc \notin {"idle", "done", "failed"}

\* the user's DataRetention row is there when the cleanup reads it
setRetention(autoDelete, days) ==
    /\ ~cleanupRuns
    /\ ~retention.present
    /\ retention' = [present |-> TRUE, autoDelete |-> autoDelete,
                     retentionDays |-> days]
    /\ UNCHANGED <<coreVars, crypto, sweep, fetchRun, refreshVars, stamps,
                   cleanup>>

\* prisma.post.upsert of fetch-posts: create sets fetchedAt
postUpsert(p) ==
    /\ ~cleanupRuns
    /\ pages[pageOf(p)].present
    /\ posts' = upsert(posts, p)
    /\ stamps' = [stamps EXCEPT !.post[p] = IF posts[p] = 0 THEN clock ELSE @]
    /\ UNCHANGED <<queueVars, apiVars, listVars, payload, comments,
                   analysisRows>>
    /\ UNCHANGED <<crypto, sweep, fetchRun, refreshVars, retention, cleanup>>

\* prisma.comment.upsert of fetch-comments: create and update set fetchedAt
commentUpsert(c) ==
    /\ ~cleanupRuns
    /\ posts[postOf(c)] > 0
    /\ comments' = upsert(comments, c)
    /\ stamps' = [stamps EXCEPT !.comment[c] = clock]
    /\ UNCHANGED <<queueVars, apiVars, listVars, payload, posts,
                   analysisRows>>
    /\ UNCHANGED <<crypto, sweep, fetchRun, refreshVars, retention, cleanup>>

\* prisma.analysis.create of analyze-sentiment, after its findFirst found
\* no row
analysisCreate(c) ==
    /\ ~cleanupRuns
    /\ comments[c] > 0
    /\ analysisRows[c] = 0
    /\ analysisRows' = [analysisRows EXCEPT ![c] = @ + 1]
    /\ stamps' = [stamps EXCEPT !.analysis[c] = clock]
    /\ UNCHANGED <<queueVars, apiVars, listVars, payload, posts, comments>>
    /\ UNCHANGED <<crypto, sweep, fetchRun, refreshVars, retention, cleanup>>

\* findMany where autoDelete
usersWithAutoDelete ==
    IF retention.present /\ retention.autoDelete THEN <<"u1">> ELSE <<>>

\* cleanupUserData(userId?): with a userId cleanupSpecificUser is called,
\* without one cleanupAllUsers reads the users to go through
cleanupUserData(userId, onDelete) ==
    /\ ~cleanupRuns
    /\ cleanup' = [NoCleanup EXCEPT
          !.pc = IF userId # Null THEN "user" ELSE "loop",
          !.userId = userId,
          !.onDelete = onDelete,
          !.todo = IF userId # Null THEN <<>> ELSE usersWithAutoDelete]
    /\ UNCHANGED <<coreVars, crypto, sweep, fetchRun, refreshVars, retention,
                   stamps>>

\* cleanupAllUsers: the next user of the loop, or the orphan sweep after it
cleanupAllUsers ==
    /\ cleanup.pc = "loop"
    /\ cleanup' = [cleanup EXCEPT
          !.pc = IF cleanup.todo = <<>> THEN "orphans" ELSE "user"]
    /\ UNCHANGED <<coreVars, crypto, sweep, fetchRun, refreshVars, retention,
                   stamps>>

\* where cleanupSpecificUser goes when it returns or throws: back to the
\* caller.  cleanupUserData returns or rethrows; the loop of
\* cleanupAllUsers catches and goes on with the next user
afterUser(threw) ==
    IF cleanup.userId # Null
    THEN [cleanup EXCEPT !.pc = IF threw THEN "failed" ELSE "done"]
    ELSE [cleanup EXCEPT !.pc = "loop", !.todo = Tail(@)]

\* the pages of the user
pageIds == {p \in PageIds : pages[p].present}

\* cleanupSpecificUser up to the first deleteMany: without retention
\* settings or without pages it returns
cleanupSpecificUser ==
    /\ cleanup.pc = "user"
    /\ cleanup' =
          IF ~retention.present \/ pageIds = {}
          THEN afterUser(FALSE)
          ELSE [cleanup EXCEPT
                  !.pc = "analyses",
                  !.cutoffDate = cutoffDate(clock, retention.retentionDays),
                  !.deletedPosts = {}, !.deletedComments = {}]
    /\ UNCHANGED <<coreVars, crypto, sweep, fetchRun, refreshVars, retention,
                   stamps>>

oldAnalyses ==
    {c \in CommentIds :
        /\ analysisRows[c] > 0
        /\ stamps.analysis[c] < cleanup.cutoffDate
        /\ comments[c] > 0
        /\ posts[postOf(c)] > 0
        /\ pageOf(postOf(c)) \in pageIds}

\* prisma.analysis.deleteMany
deleteOldAnalyses ==
    /\ cleanup.pc = "analyses"
    /\ analysisRows' = deleteRows(analysisRows, oldAnalyses)
    /\ stamps' = stampsOfRows(stamps, posts, comments, analysisRows')
    /\ cleanup' = [cleanup EXCEPT !.pc = "comments"]
    /\ UNCHANGED <<queueVars, apiVars, listVars, payload, posts, comments>>
    /\ UNCHANGED <<crypto, sweep, fetchRun, refreshVars, retention>>

oldComments ==
    {c \in CommentIds :
        /\ comments[c] > 0
        /\ stamps.comment[c] < cleanup.cutoffDate
        /\ posts[postOf(c)] > 0
        /\ pageOf(postOf(c)) \in pageIds}

\* the Analysis rows of the comments cs
analysesOf(cs) == {c \in cs : analysisRows[c] > 0}

\* prisma.comment.deleteMany
deleteOldComments ==
    /\ cleanup.pc = "comments"
    /\ IF cleanup.onDelete = "Restrict" /\ analysesOf(oldComments) # {}
       THEN /\ cleanup' = afterUser(TRUE)
            /\ UNCHANGED <<comments, analysisRows, stamps>>
       ELSE /\ comments' = deleteRows(comments, oldComments)
            /\ analysisRows' =
                  IF cleanup.onDelete = "Cascade"
                  THEN deleteRows(analysisRows, oldComments)
                  ELSE analysisRows
            /\ stamps' = stampsOfRows(stamps, posts, comments', analysisRows')
            /\ cleanup' = [cleanup EXCEPT !.pc = "posts",
                                          !.deletedComments = oldComments]
    /\ UNCHANGED <<queueVars, apiVars, listVars, payload, posts>>
    /\ UNCHANGED <<crypto, sweep, fetchRun, refreshVars, retention>>

oldPosts ==
    {p \in PostIds :
        /\ posts[p] > 0
        /\ stamps.post[p] < cleanup.cutoffDate
        /\ pageOf(p) \in pageIds}

\* the Comment rows of the posts ps
commentsOfPosts(ps) == {c \in CommentIds : comments[c] > 0 /\ postOf(c) \in ps}

\* prisma.post.deleteMany, then the update of lastCleanupAt and the audit
\* entry; cleanupSpecificUser returns
deleteOldPosts ==
    /\ cleanup.pc = "posts"
    /\ IF cleanup.onDelete = "Restrict" /\ commentsOfPosts(oldPosts) # {}
       THEN /\ cleanup' = afterUser(TRUE)
            /\ UNCHANGED <<posts, comments, analysisRows, stamps>>
       ELSE /\ posts' = deleteRows(posts, oldPosts)
            /\ comments' =
                  IF cleanup.onDelete = "Cascade"
                  THEN deleteRows(comments, commentsOfPosts(oldPosts))
                  ELSE comments
            /\ analysisRows' =
                  IF cleanup.onDelete = "Cascade"
                  THEN deleteRows(analysisRows, commentsOfPosts(oldPosts))
                  ELSE analysisRows
            /\ stamps' = stampsOfRows(stamps, posts', comments', analysisRows')
            /\ cleanup' = [cleanup EXCEPT !.pc = "userDone",
                                          !.deletedPosts = oldPosts]
    /\ UNCHANGED <<queueVars, apiVars, listVars, payload>>
    /\ UNCHANGED <<crypto, sweep, fetchRun, refreshVars, retention>>

\* cleanupSpecificUser has returned to its caller
cleanupSpecificUserReturns ==
    /\ cleanup.pc = "userDone"
    /\ cleanup' = afterUser(FALSE)
    /\ UNCHANGED <<coreVars, crypto, sweep, fetchRun, refreshVars, retention,
                   stamps>>

orphanedAnalyses == {c \in CommentIds : analysisRows[c] > 0 /\ comments[c] = 0}
orphanedComments == {c \in CommentIds : comments[c] > 0 /\ posts[postOf(c)] = 0}
orphanedPosts ==
    {p \in PostIds :
        posts[p] > 0 /\ (~pages[pageOf(p)].present
                          \/ ~pages[pageOf(p)].isActive)}

\* cleanupOrphanedData: three deleteMany in a row; a delete the database
\* refuses makes cleanupUserData throw
cleanupOrphanedData ==
    /\ cleanup.pc = "orphans"
    /\ LET analyses1 == deleteRows(analysisRows, orphanedAnalyses)
           refused2 == cleanup.onDelete = "Restrict"
                       /\ \E c \in orphanedComments : analyses1[c] > 0
           comments2 == IF refused2 THEN comments
                        ELSE deleteRows(comments, orphanedComments)
           analyses2 == IF ~refused2 /\ cleanup.onDelete = "Cascade"
                        THEN deleteRows(analyses1, orphanedComments)
                        ELSE analyses1
           children == {c \in CommentIds :
                           comments2[c] > 0 /\ postOf(c) \in orphanedPosts}
           refused3 == cleanup.onDelete = "Restrict" /\ children # {}
           cascade3 == ~refused2 /\ ~refused3 /\ cleanup.onDelete = "Cascade"
       IN /\ posts' = IF refused2 \/ refused3 THEN posts
                      ELSE deleteRows(posts, orphanedPosts)
          /\ comments' = IF cascade3 THEN deleteRows(comments2, children)
                         ELSE comments2
          /\ analysisRows' = IF cascade3 THEN deleteRows(analyses2, children)
                             ELSE analyses2
          /\ cleanup' = [cleanup EXCEPT
                !.pc = IF refused2 \/ refused3 THEN "failed" ELSE "done",
                !.swept = TRUE]
    /\ stamps' = stampsOfRows(stamps, posts', comments', analysisRows')
    /\ UNCHANGED <<queueVars, apiVars, listVars, payload>>
    /\ UNCHANGED <<crypto, sweep, fetchRun, refreshVars, retention>>

CleanupNext ==
    \/ DayPasses
    \/ \E iv \in IVs : connectPage(1, iv, TRUE, NoToken)
    \/ \E autoDelete \in BOOLEAN, days \in RetentionDaysArgs :
          setRetention(autoDelete, days)
    \/ \E p \in PostIds : postUpsert(p)
    \/ \E c \in CommentIds : commentUpsert(c)
    \/ \E c \in CommentIds : analysisCreate(c)
    \/ \E userId \in {Null} \cup {Some(u) : u \in Users}, onDelete \in OnDelete :
          cleanupUserData(userId, onDelete)
    \/ cleanupAllUsers
    \/ cleanupSpecificUser
    \/ deleteOldAnalyses
    \/ deleteOldComments
    \/ deleteOldPosts
    \/ cleanupSpecificUserReturns
    \/ cleanupOrphanedData

SpecCleanup == Init /\ [][CleanupNext]_vars

\* ---- the claims ----
\* getNextJob has returned tickJob[f] to flow f, which has not finished it
Holds(f) == pc[f] \in {"dispatch", "failUpdate"}

\* flow f takes the step named by its pc before and after
Step(f, from, to) == pc[f] = from /\ pc'[f] = to

\* C1: two flows that call getNextJob concurrently never both obtain the
\* same job id for the same attempt (the same row with the same attempts
\* count).
C1_NoDoubleClaim ==
    \A f, g \in Flows :
        (f # g /\ Holds(f) /\ Holds(g)) => tickJob[f] # tickJob[g]

\* C2: in every reachable state every job has attempts <= maxAttempts.
C2_AttemptsBounded ==
    \A j \in JobIds : Exists(j) => jobs[j].attempts <= jobs[j].maxAttempts

\* C3: once a job is FAILED no later step sets its status back to QUEUED.
C3_FailedNeverRequeued ==
    [][\A j \in JobIds :
          jobs[j].status = "FAILED" => jobs'[j].status # "QUEUED"]_vars

\* C4: COMPLETED is terminal: the status of a COMPLETED job never changes.
C4_CompletedTerminal ==
    [][\A j \in JobIds :
          jobs[j].status = "COMPLETED" => jobs'[j].status = "COMPLETED"]_vars

\* C5: the job getNextJob marks RUNNING and returns is QUEUED with
\* scheduledAt <= now and attempts < maxAttempts, and no eligible job has a
\* smaller scheduledAt; in particular a job re-queued by failJob is not
\* claimed before its new scheduledAt.
C5_ClaimsOnlyEligible ==
    [][\A f \in Flows :
          Step(f, "update", "dispatch") => tickJob[f].id \in FindFirst]_vars

\* C6: failJob re-queues the job when its attempts < maxAttempts and
\* otherwise marks it FAILED and records lastError; a job becomes FAILED
\* only with attempts = maxAttempts.
C6_FailJobDecision ==
    [][\A f \in Flows :
          Step(f, "failUpdate", "idle") =>
            LET before == jobs[tickJob[f].id]
                after == jobs'[tickJob[f].id]
            IN  /\ before.attempts < before.maxAttempts
                      => after.status = "QUEUED"
                /\ before.attempts >= before.maxAttempts
                      => (after.status = "FAILED"
                          /\ after.lastError = tickError[f].message)
                /\ after.status = "FAILED"
                      => before.attempts = before.maxAttempts]_vars

\* the delay of the specification: min(base * 2^a, cap), base 1 s, cap 5 min
SpecBackoff(a) == IF 1000 * (2 ^ a) < 300000 THEN 1000 * (2 ^ a) ELSE 300000

\* C7 as stated: when the handler throws on attempt 1 of 3 for a job whose
\* scheduledAt was T, the job's new scheduledAt equals T + backoff(1).
C7_BackoffFromScheduledAt ==
    [][\A f \in Flows :
          (Step(f, "failUpdate", "idle") /\ failLocal[f].attempts = 1
              /\ failLocal[f].maxAttempts = 3) =>
            jobs'[tickJob[f].id].scheduledAt =
                jobs[tickJob[f].id].scheduledAt + SpecBackoff(1)]_vars

\* C7 as amended: when failJob re-queues a job after reading attempts = a
\* (a = 1 after the first attempt of a job no other flow claimed), the job
\* becomes QUEUED with scheduledAt = now + backoff(a), where now is the time
\* at which failJob runs and backoff(a) = min(1000 * 2^a, 300000) ms.
C7_BackoffFromNow ==
    [][\A f \in Flows :
          (Step(f, "failUpdate", "idle")
              /\ failLocal[f].attempts < failLocal[f].maxAttempts) =>
            /\ jobs'[tickJob[f].id].status = "QUEUED"
            /\ jobs'[tickJob[f].id].scheduledAt =
                  failLocal[f].now + SpecBackoff(failLocal[f].attempts)]_vars

\* a job of maxAttempts 3 whose first attempt threw waits for its retry
C7_Witness ==
    \E j \in JobIds :
        /\ jobs[j].status = "QUEUED"
        /\ jobs[j].attempts = 1
        /\ jobs[j].maxAttempts = 3
        /\ jobs[j].lastError # "null"
        /\ jobs[j].scheduledAt > clock
        /\ clock > 0

\* C8: a tick that claimed a job ends with completeJob or failJob for that
\* job, so the job is not RUNNING when the tick ends.
C8_TickSettlesJob ==
    [][\A f \in Flows :
          (Holds(f) /\ pc'[f] = "idle") =>
            jobs'[tickJob[f].id].status # "RUNNING"]_vars

\* C9: a claimed job whose type matches no handler gets failJob applied: the
\* throw of the default branch leads into failJob.
C9_UnknownTypeFails ==
    [][\A f \in Flows :
          (pc[f] = "dispatch" /\ pc'[f] # "dispatch"
              /\ jobs[tickJob[f].id].type \notin HandledTypes) =>
            pc'[f] = "failUpdate"]_vars

\* C10: one instance never has two of its own jobs in flight at the same
\* time: no two ticks of one instance hold different jobs at once.
C10_OneJobInFlight ==
    \A f, g \in Flows :
        (f[1] = g[1] /\ Holds(f) /\ Holds(g)) => tickJob[f].id = tickJob[g].id

\* C11: with a ticking scheduler and terminating handlers every enqueued job
\* eventually reaches COMPLETED or FAILED.  Stated on the states a run passes
\* through: a job that is neither COMPLETED nor FAILED is still worked on by
\* a tick or can still be claimed (QUEUED with attempts left); in any other
\* state no operation of the queue ever touches the row again.
C11_NoStuckJob ==
    \A j \in JobIds :
        (Exists(j) /\ jobs[j].status \notin {"COMPLETED", "FAILED"}) =>
            \/ \E f \in Flows : pc[f] # "idle" /\ tickJob[f].id = j
            \/ (jobs[j].status = "QUEUED"
                /\ jobs[j].attempts < jobs[j].maxAttempts)

\* a call the limiter has let through
Admitted(k) == call[k].pc \notin {"idle", "limitSleep"}

\* call c enters checkLimit on object a in this step
EntersLimiter(c, a) ==
    call[c].pc = "idle" /\ call'[c].pc # "idle" /\ call'[c].api = a

\* C12: limiter with quota N and window W.  When N requests have been
\* admitted within the current window, the next checkLimit call waits at
\* least W minus the time elapsed since the oldest of them; and a call made
\* more than W after every earlier call does not wait.
C12_WaitWhenWindowFull ==
    [][\A c \in Calls, a \in Apis :
        EntersLimiter(c, a) =>
            LET inWindow == {k \in Calls :
                                /\ Admitted(k)
                                /\ call[k].api = a
                                /\ clock - call[k].admittedAt < timeWindow}
                oldest == CHOOSE t \in {call[k].admittedAt : k \in inWindow} :
                              \A k \in inWindow : t <= call[k].admittedAt
                earlier == {k \in Calls : call[k].pc # "idle" /\ call[k].api = a}
            IN /\ Cardinality(inWindow) >= maxRequests =>
                    /\ call'[c].pc = "limitSleep"
                    /\ call'[c].wakeAt - clock >= timeWindow - (clock - oldest)
               /\ (\A k \in earlier : clock - call[k].now > timeWindow) =>
                    call'[c].pc # "limitSleep"
      ]_vars

\* C13: for one client, any interval of length W holds at most N HTTP
\* requests actually sent, each counted at the time fetch sends it, the
\* retry attempts of makeRequest included.
C13_QuotaPerWindow ==
    \A s \in sent :
        Cardinality({x \in sent : /\ x.api = s.api
                                  /\ s.time <= x.time
                                  /\ x.time < s.time + timeWindow})
            <= maxRequests

\* C14: all requests made with one credential go through one limiter
\* window: a call is let through without waiting only while fewer than N
\* calls made with the same token, through whichever client object, are
\* recorded in the window.
C14_SharedWindow ==
    [][\A c \in Calls :
        (call[c].pc = "idle" /\ call'[c].pc = "fetch") =>
            Cardinality({k \in Calls :
                            /\ Admitted(k)
                            /\ accessToken[call[k].api]
                                   = accessToken[call'[c].api]
                            /\ clock - call[k].now < timeWindow})
                < maxRequests
      ]_vars

\* C15: a non-retriable 4xx answer makes makeRequest fail on that response:
\* no further attempt, no backoff sleep.
C15_PermanentErrorFailsAtOnce ==
    [][\A c \in Calls :
        (call[c].pc = "fetch" /\ call'[c].pc # "fetch"
           /\ call'[c].response = "4xx") =>
            call'[c].pc = "thrown"
      ]_vars

\* the attempts call c has sent
Sends(c) == {s \in sent : s.call = c}

\* the delay before the retry that follows attempt a, as the claim states it
SpecRetryDelay(a) == IF 1000 * (2 ^ a) < 30000 THEN 1000 * (2 ^ a) ELSE 30000

\* how far call c has come: every step of the call moves it up
CallRank(c) ==
    CASE call[c].pc = "idle" -> 0
      [] call[c].pc = "limitSleep" -> 1
      [] call[c].pc = "fetch" -> 2 + 2 * call[c].attempt
      [] call[c].pc = "backoff" -> 3 + 2 * call[c].attempt
      [] OTHER -> 2 + 2 * maxRetries

C17_StopsAtCap ==
    listing.pc = "done" =>
        LET n == Len(listing.items)
            cap == itemCap(listing.helper)
        IN /\ n <= cap
           /\ listing.nextUrl # Null => n = cap
           /\ n < cap => listing.nextUrl = Null

\* C18: a listing follows the next cursor of each page: for a result set
\* below the cap it returns the pages in order, each upstream item once.
C18_FollowsCursor ==
    (listing.pc = "done" /\ upstream.total < itemCap(listing.helper)) =>
        /\ Len(listing.items) = upstream.total
        /\ \A i \in 1..Len(listing.items) : listing.items[i] = i

\* C19: in every state there is at most one Analysis row per Comment, also
\* when ANALYZE_SENTIMENT jobs for one comment run in overlapping ticks.
C19_OneAnalysisPerComment ==
    \A c \in CommentIds : analysisRows[c] <= 1

\* the rows of one type in the Job table
JobsOfType(type) == {j \in RowIds : Exists(j) /\ jobs[j].type = type}

\* the FETCH_POSTS job was enqueued and nothing is left to do: no row is
\* QUEUED or RUNNING and no tick is under way
Drained ==
    /\ JobsOfType("FETCH_POSTS") # {}
    /\ \A j \in RowIds : Exists(j) => jobs[j].status \in {"COMPLETED", "FAILED"}
    /\ \A f \in Flows : pc[f] = "idle"

\* C20: once the queue is drained after a FETCH_POSTS job, there is one
\* FETCH_COMMENTS job per fetched post with comments, one ANALYZE_SENTIMENT
\* job per fetched comment and exactly one Analysis row per comment.
C20_DrainedCounts ==
    Drained =>
        /\ Cardinality(JobsOfType("FETCH_COMMENTS"))
             = Cardinality({p \in Rows(posts) : commentCount[p] > 0})
        /\ Cardinality(JobsOfType("ANALYZE_SENTIMENT"))
             = Cardinality(Rows(comments))
        /\ \A c \in Rows(comments) : analysisRows[c] = 1

\* C21: decrypt(encrypt(plaintext)) is the plaintext for every plaintext,
\* and decrypting an envelope whose tag or ciphertext segment was altered
\* fails instead of returning a plaintext.
C21_RoundTripAndTamper ==
    /\ crypto.pc = "encrypted" => crypto.envelope.ok
    /\ (crypto.pc = "decrypted" /\ crypto.altered = "none") =>
          crypto.result = Success(crypto.plaintext)
    /\ (crypto.pc = "decrypted" /\ crypto.altered \in {"tag", "ciphertext"}) =>
          ~crypto.result.ok

\* C22: decrypt fails whenever the envelope does not have exactly three
\* segments.
C22_SegmentCount ==
    (crypto.pc = "decrypted" /\ Len(crypto.envelope.value) # 3) =>
        ~crypto.result.ok

\* C23: a run of cleanupOldJobs(d) deletes exactly the COMPLETED rows whose
\* completedAt lies more than d days before the call and leaves every other
\* row as it was, and no other step of the queue deletes a row
SweepEnds == sweep.pc = "deleteMany" /\ sweep'.pc = "idle"
OlderThan(j, now, days) ==
    /\ jobs[j].completedAt # Null
    /\ Val(jobs[j].completedAt) + days * msPerDay < now
C23_SweepDeletesOldCompleted ==
    [][/\ SweepEnds =>
            \A j \in RowIds :
                IF jobs[j].status = "COMPLETED"
                   /\ OlderThan(j, sweep.now, sweep.days)
                THEN jobs'[j].status = "DELETED"
                ELSE jobs'[j] = jobs[j]
       /\ ~SweepEnds =>
            \A j \in RowIds :
                jobs'[j].status = "DELETED" => jobs[j].status = "DELETED"]_vars
\* a sweep deleted a row and kept a COMPLETED row that was not old enough
C23_Witness ==
    /\ sweep.count > 0
    /\ \E j \in RowIds : Gone(j)
    /\ \E j \in RowIds : jobs[j].status = "COMPLETED"

\* C24: however often the fetch workers run on the same upstream data,
\* retries after a failure in the middle of the loop included, no key has
\* more than one Post row or one Comment row, and once a run has returned
\* the rows are those of the upstream items, one each
Returned(j) == Exists(j) /\ jobs[j].completedAt # Null
C24_OneRowPerKey ==
    /\ \A p \in PostIds : posts[p] <= 1
    /\ \A c \in CommentIds : comments[c] <= 1
    /\ (\E j \in RowIds : jobs[j].type = "FETCH_POSTS" /\ Returned(j)) =>
          \A p \in PostIds : posts[p] = 1
    /\ \A j \in RowIds :
          (jobs[j].type = "FETCH_COMMENTS" /\ Returned(j)) =>
              \A c \in commentsOf[payload[j]] : comments[c] = 1
\* fetch-posts failed after it had upserted and enqueued, was retried and
\* returned: three FETCH_COMMENTS rows take more than one run
C24_Witness ==
    /\ \E j \in RowIds :
          /\ jobs[j].type = "FETCH_POSTS"
          /\ Returned(j)
          /\ jobs[j].lastError # "null"
    /\ Cardinality(JobsOfType("FETCH_COMMENTS")) = 3
    /\ \A p \in PostIds : posts[p] = 1

\* C25: the step in which validateToken answers false upserts nothing and
\* enqueues nothing, nothing was upserted or enqueued by the run before it,
\* and it hands the error with its jobId to failJob, whose update sets the
\* job to QUEUED or FAILED with the error recorded
InvalidAnswer(f) == fetchRun[f].isValid = Some(FALSE)
C25_InvalidTokenFailsJob ==
    [][\A f \in Flows :
          /\ (~InvalidAnswer(f) /\ InvalidAnswer(f)') =>
                /\ ~fetchRun[f].wrote
                /\ posts' = posts /\ comments' = comments /\ jobs' = jobs
                /\ pc'[f] = "failUpdate"
                /\ tickError'[f].hasJobId
          /\ (InvalidAnswer(f) /\ pc[f] = "failUpdate" /\ pc'[f] # pc[f]) =>
                /\ jobs'[tickJob[f].id].status \in {"QUEUED", "FAILED"}
                /\ jobs'[tickJob[f].id].lastError = InvalidTokenMessage]_vars
\* the FETCH_POSTS job is back in the queue with the error of the token
\* check, and there is no Post row and no other job
C25_Witness ==
    /\ \E j \in RowIds :
          /\ jobs[j].type = "FETCH_POSTS"
          /\ jobs[j].status = "QUEUED"
          /\ jobs[j].lastError = InvalidTokenMessage
    /\ NumRows = 1
    /\ \A p \in PostIds : posts[p] = 0

\* C26: when a run of refresh-tokens ends, every page that was active with
\* an invalid token is inactive, a stored token differs from the one before
\* the run only for a valid token that expires within seven days, the
\* pages that were inactive before are as they were, and no row of the
\* Page, Post, Comment or Analysis table is gone
RefreshEnds == refresh.pc = "loop" /\ refresh'.pc = "done"
C26_AfterRefresh ==
    [][/\ RefreshEnds =>
            \A p \in PageIds :
                /\ (refresh.before[p].isActive /\ ~graphTokens[p].valid) =>
                      ~pages'[p].isActive
                /\ pages'[p].pageAccessToken
                        # refresh.before[p].pageAccessToken =>
                      graphTokens[p].valid /\ graphTokens[p].expiresSoon
                /\ ~refresh.before[p].isActive =>
                      pages'[p] = refresh.before[p]
                /\ refresh.before[p].present => pages'[p].present
       /\ refresh.pc = "loop" =>
            /\ posts' = posts
            /\ comments' = comments
            /\ analysisRows' = analysisRows]_vars

\* C27: a run of cleanup-data that has ended, by returning or by throwing,
\* with or without a userId in the payload, has done the orphan sweep
C27_AlwaysSweepsOrphans ==
    cleanup.pc \in {"done", "failed"} => cleanup.swept

\* C29: when cleanupSpecificUser has returned, no Comment row is left whose
\* Post the run deleted and no Analysis row whose Comment the run deleted
C29_NoDanglingRows ==
    cleanup.pc = "userDone" =>
        /\ \A c \in CommentIds :
              comments[c] > 0 => postOf(c) \notin cleanup.deletedPosts
        /\ \A c \in CommentIds :
              analysisRows[c] > 0 => c \notin cleanup.deletedComments

\* C28: whatever startProcessing and stopProcessing calls were made, an
\* instance has at most one live timer, isProcessing is true exactly when it
\* has one, and a tick starts only on an instance that is processing
C28_OneTimer ==
    [][/\ \A i \in Instances :
            /\ timers'[i] <= 1
            /\ isProcessing'[i] <=> timers'[i] = 1
       /\ \A f \in Flows :
            (pc[f] = "idle" /\ pc'[f] # "idle") => isProcessing[f[1]]]_vars
\* the instance was started and stopped while a tick was under way: no
\* timer is left and the tick goes on
C28_Witness ==
    \E f \in Flows :
        /\ pc[f] # "idle"
        /\ ~isProcessing[f[1]]
        /\ timers[f[1]] = 0

\* C30: a listing call ends after finitely many requests whatever the
\* upstream serves: every pass of the loop that does not end the call has
\* collected at least one more item, so that the item cap is reached after
\* finitely many passes; a pass that leaves the loop where it was is
\* repeated for as long as the upstream goes on serving the same page
C30_EveryPassAdvances ==
    [][(/\ listing.pc = "request"
        /\ listing'.pc = "request"
        /\ listing'.requests = listing.requests + 1)
       => Len(listing'.items) > Len(listing.items)]_vars

====
